---- MODULE Spec2Model ----
(***************************************************************************)
(* Role / user / user-role assignment store of the job-readiness backend.  *)
(*                                                                         *)
(* The store is the three tables created by the alembic migrations         *)
(* (users, roles, user_roles) with their constraints; the operations are   *)
(* the handlers of app/api/roles_refactored.py and the ORM operations the  *)
(* scripts perform directly on the session (user creation and deletion,    *)
(* deactivation of an assignment).                                         *)
(*                                                                         *)
(* A role's permissions are a list of strings kept in the text column      *)
(* roles.permissions; the Role methods that read and write the list         *)
(* (get/set_permissions_list, add/remove_permission, the has_* queries,     *)
(* get_permissions_by_level) work on that serialized text.                  *)
(*                                                                         *)
(* assign_role_to_user and delete_role are "check, then write" handlers:   *)
(* each is two steps (its queries, then its write and commit) so that      *)
(* requests interleave as concurrent transactions do.                      *)
(***************************************************************************)
EXTENDS Integers, Sequences, FiniteSets, TLC

\* ------------------------------------------------------------------ bounds
MaxRoleId == 2          \* roles.id values handed out by the store
MaxAssignId == 2        \* user_roles.id values handed out by the store
MaxListLen == 3         \* length of the lists passed to set_permissions_list
MaxPerms == 3           \* length to which add_permission grows a permission list
MaxSkip == 2            \* largest skip a listing request carries
MaxLimit == 2           \* largest limit a listing request carries
MaxStatRoles == 6       \* roles in the stores the statistics are taken over

\* --------------------------------------------------------- input domains
Users == {"u1", "u2"}                 \* users.id values (opaque UUIDs)
RoleNames == {"admin", "editor"}      \* roles.name values
Procs == {"p1", "p2"}                 \* concurrent requests

NoUser == ""            \* NULL in a users.id column / no user argument
NoName == ""            \* field not set in a RoleUpdateSchema / no name argument
NoId == 0               \* no row id argument

\* ------------------------------------------------------- permission codec
\* A string is the sequence of its characters; the permissions column
\* (sa.Text, nullable) holds the characters of its serialized text, or None.
\* None is Python's None / SQL NULL: a value that is no string (its one
\* element is no character).
None == <<"None">>

\* str.strip(): leading and trailing whitespace removed.
RECURSIVE lstrip(_)
lstrip(s) == IF s # <<>> /\ Head(s) = " " THEN lstrip(Tail(s)) ELSE s

RECURSIVE rstrip(_)
rstrip(s) ==
    IF s # <<>> /\ s[Len(s)] = " " THEN rstrip(SubSeq(s, 1, Len(s) - 1)) ELSE s

strip(s) == rstrip(lstrip(s))

\* json.dumps of one string: quoted, with '"' and '\' escaped.
RECURSIVE Escaped(_)
Escaped(s) ==
    IF s = <<>> THEN <<>>
    ELSE (IF Head(s) \in {"\"", "\\"} THEN <<"\\", Head(s)>> ELSE <<Head(s)>>)
             \o Escaped(Tail(s))

DumpsElement(e) ==
    IF e = None THEN <<"n", "u", "l", "l">> ELSE <<"\"">> \o Escaped(e) \o <<"\"">>

RECURSIVE DumpsElements(_)
DumpsElements(values) ==
    IF values = <<>> THEN <<>>
    ELSE IF Len(values) = 1 THEN DumpsElement(values[1])
    ELSE DumpsElement(values[1]) \o <<",", " ">> \o DumpsElements(Tail(values))

\* json.dumps(values) for a list of strings: ["a", "b"]
dumps(values) == <<"[">> \o DumpsElements(values) \o <<"]">>

\* json.loads, for the texts that are a list of strings and nulls; any other
\* text is answered Malformed (where json.loads raises, or yields no list).
Malformed == [ok |-> FALSE, value |-> <<>>, next |-> 0]

RECURSIVE SkipWhitespace(_, _)
SkipWhitespace(text, i) ==
    IF i <= Len(text) /\ text[i] = " " THEN SkipWhitespace(text, i + 1) ELSE i

\* The string whose opening quote precedes position i.
RECURSIVE LoadsString(_, _, _)
LoadsString(text, i, acc) ==
    IF i > Len(text) THEN Malformed
    ELSE IF text[i] = "\"" THEN [ok |-> TRUE, value |-> acc, next |-> i + 1]
    ELSE IF text[i] = "\\"
         THEN IF i + 1 <= Len(text) /\ text[i + 1] \in {"\"", "\\"}
              THEN LoadsString(text, i + 2, Append(acc, text[i + 1]))
              ELSE Malformed
    ELSE LoadsString(text, i + 1, Append(acc, text[i]))

\* One element at position i: a string or null.
LoadsElement(text, i) ==
    IF i > Len(text) THEN Malformed
    ELSE IF text[i] = "\"" THEN LoadsString(text, i + 1, <<>>)
    ELSE IF i + 3 <= Len(text) /\ SubSeq(text, i, i + 3) = <<"n", "u", "l", "l">>
         THEN [ok |-> TRUE, value |-> None, next |-> i + 4]
    ELSE Malformed

\* The elements from position i up to the closing bracket.
RECURSIVE LoadsElements(_, _, _)
LoadsElements(text, i, acc) ==
    LET e == LoadsElement(text, i)
    IN  IF ~e.ok THEN Malformed
        ELSE LET j == SkipWhitespace(text, e.next)
             IN  IF j > Len(text) THEN Malformed
                 ELSE IF text[j] = ","
                      THEN LoadsElements(text, SkipWhitespace(text, j + 1),
                                         Append(acc, e.value))
                 ELSE IF text[j] = "]" /\ SkipWhitespace(text, j + 1) > Len(text)
                      THEN [ok |-> TRUE, value |-> Append(acc, e.value), next |-> j + 1]
                 ELSE Malformed

loads(text) ==
    LET i == SkipWhitespace(text, 1)
    IN  IF i > Len(text) \/ text[i] # "[" THEN Malformed
        ELSE LET j == SkipWhitespace(text, i + 1)
             IN  IF j <= Len(text) /\ text[j] = "]"
                 THEN IF SkipWhitespace(text, j + 1) > Len(text)
                      THEN [ok |-> TRUE, value |-> <<>>, next |-> j + 1]
                      ELSE Malformed
                 ELSE LoadsElements(text, j, <<>>)

\* Permission strings of the scripts' roles ("doc:read", "doc:write", written
\* with one letter per word) and the permissions texts requests carry.
DocRead == <<"d", ":", "r">>
DocWrite == <<"d", ":", "w">>
PermLists == {dumps(<<DocRead>>), dumps(<<DocRead, DocWrite>>)}

\* Entries of the lists passed to set_permissions_list: a permission, the
\* same permission with surrounding whitespace, a permission made of the
\* characters the serialized text gives a meaning to (backslash, quote,
\* comma), the empty string, a whitespace-only string and None.
PaddedDocRead == <<" ">> \o DocRead \o <<" ">>
Punctuation == <<"\\", "\"", ",">>
PermEntries == {DocRead, PaddedDocRead, Punctuation, <<>>, <<" ", " ">>, None}

\* Values passed to add_permission, remove_permission and the has_* queries:
\* the empty string, a whitespace-only string, permissions with one ":",
\* with surrounding whitespace, with two ":", with none, and "*".
GeneralRead == <<"g", ":", "r">>
DocReadWrite == <<"d", ":", "r", ":", "w">>
Plain == <<"x">>
PermArgs == {<<>>, <<" ", " ">>, DocRead, PaddedDocRead, DocWrite, GeneralRead,
             DocReadWrite, Plain, <<"*">>}

\* Permissions asked for in the has_* queries, singly and in lists.
QueryArgs == {<<>>, DocRead, DocReadWrite, Plain, <<"*">>}


VARIABLES
    users,              \* table users: the set of users.id
    roles,              \* table roles: rows [id, name, is_active, permissions]
    next_role_id,       \* roles.id sequence
    user_roles,         \* table user_roles: rows [id, user_id, role_id, assigned_by, is_active]
    next_user_role_id,  \* user_roles.id sequence
    pc,                 \* per request: "idle", "assign" (past its checks), "delete" (past its checks)
    req,                \* per request: the arguments it carries to its write
    last,               \* the outcome of the last step: the response of the operation
                        \* that completed, or "checked" for a request past its checks
    schema              \* the database schema and its alembic_version

vars == <<users, roles, next_role_id, user_roles, next_user_role_id, pc, req, last, schema>>

\* ------------------------------------------------------ schema migrations
\* The revisions in the order they are applied.  The file of 2b96a20dd9bd,
\* the parent 4f2bed31f0e2 names, is not among the sources; it is applied
\* after f6f4914742e2 and taken to change nothing.
Revisions ==
    <<"f6f4914742e2", "2b96a20dd9bd", "4f2bed31f0e2", "7f91e9655315", "0e9150a01e7e">>

\* down_revision of each revision file ("" for None).
down_revision ==
    [r \in {Revisions[i] : i \in 1..Len(Revisions)} |->
        CASE r = "f6f4914742e2" -> ""
          [] r = "2b96a20dd9bd" -> "f6f4914742e2"
          [] r = "4f2bed31f0e2" -> "2b96a20dd9bd"
          [] r = "7f91e9655315" -> "4f2bed31f0e2"
          [] r = "0e9150a01e7e" -> "7f91e9655315"]

\* The operations of upgrade().  A create_table carries its columns and the
\* names of the indexes it creates for its Column(index=True) columns.
CreateTable(table, columns, indexed) ==
    [op |-> "create_table", table |-> table, name |-> table,
     columns |-> columns, indexed |-> indexed]
CreateIndex(name, table, columns) ==
    [op |-> "create_index", table |-> table, name |-> name,
     columns |-> columns, indexed |-> {}]
AddColumn(table, column) ==
    [op |-> "add_column", table |-> table, name |-> column,
     columns |-> {column}, indexed |-> {}]
CreateUniqueConstraint(name, table, columns) ==
    [op |-> "create_unique_constraint", table |-> table, name |-> name,
     columns |-> columns, indexed |-> {}]
CreateCheckConstraint(name, table, columns) ==
    [op |-> "create_check_constraint", table |-> table, name |-> name,
     columns |-> columns, indexed |-> {}]

\* f6f4914742e2: upgrade()
InitialMigration ==
    <<CreateTable("users",
        {"id", "email", "hashed_password", "is_active", "is_superuser", "is_verified",
         "first_name", "last_name", "phone", "bio", "profile_picture_url",
         "created_at", "updated_at"}, {"ix_users_email"}),
      CreateIndex("ix_users_email", "users", {"email"}),
      CreateIndex("ix_users_created_at", "users", {"created_at"}),
      CreateIndex("ix_users_is_active", "users", {"is_active"}),
      CreateTable("roles",
        {"id", "name", "description", "permissions", "is_active", "created_at",
         "updated_at"}, {"ix_roles_name"}),
      CreateTable("user_roles",
        {"id", "user_id", "role_id", "assigned_at", "assigned_by"}, {}),
      CreateTable("resumes",
        {"id", "user_id", "title", "file_path", "file_name", "file_size", "file_type",
         "summary", "experience_years", "education_level", "skills", "languages",
         "is_active", "is_public", "last_analyzed", "created_at", "updated_at"}, {}),
      CreateIndex("ix_resumes_user_id", "resumes", {"user_id"}),
      CreateIndex("ix_resumes_created_at", "resumes", {"created_at"}),
      CreateIndex("ix_resumes_is_active", "resumes", {"is_active"}),
      CreateIndex("ix_resumes_file_type", "resumes", {"file_type"}),
      CreateTable("scores",
        {"id", "user_id", "resume_id", "analysis_type", "job_title", "company",
         "overall_score", "skill_score", "experience_score", "education_score",
         "skill_matches", "skill_gaps", "recommendations", "analysis_details",
         "is_active", "analysis_date", "created_at", "updated_at"}, {})>>

\* 4f2bed31f0e2: upgrade()
AddIsActiveColumn ==
    <<AddColumn("user_roles", "is_active"),
      CreateIndex("ix_user_roles_user_id", "user_roles", {"user_id"}),
      CreateIndex("ix_user_roles_role_id", "user_roles", {"role_id"}),
      CreateIndex("ix_user_roles_assigned_at", "user_roles", {"assigned_at"}),
      CreateIndex("ix_user_roles_is_active", "user_roles", {"is_active"})>>

\* The composite and case-insensitive indexes both later revisions create.
CompositeIndexes ==
    <<CreateIndex("ix_scores_user_analysis_type", "scores",
                  {"user_id", "analysis_type", "is_active"}),
      CreateIndex("ix_scores_resume_analysis_type", "scores",
                  {"resume_id", "analysis_type", "is_active"}),
      CreateIndex("ix_scores_user_analysis_date", "scores",
                  {"user_id", "analysis_date", "is_active"}),
      CreateIndex("ix_resumes_user_created", "resumes",
                  {"user_id", "created_at", "is_active"}),
      CreateIndex("ix_user_roles_user_active", "user_roles",
                  {"user_id", "is_active", "assigned_at"}),
      CreateIndex("ix_user_roles_role_active", "user_roles",
                  {"role_id", "is_active", "assigned_at"}),
      CreateIndex("ix_roles_name_lower", "roles", {"name"}),
      CreateIndex("ix_users_email_lower", "users", {"email"})>>

UniqueConstraints ==
    <<CreateUniqueConstraint("uq_user_roles_user_role_active", "user_roles",
                             {"user_id", "role_id", "is_active"}),
      CreateUniqueConstraint("uq_resumes_user_title_active", "resumes",
                             {"user_id", "title", "is_active"})>>

\* 7f91e9655315: upgrade()
EnhanceConstraints ==
    UniqueConstraints
        \o <<CreateCheckConstraint("ck_scores_overall_score_range", "scores",
                                   {"overall_score"}),
             CreateCheckConstraint("ck_scores_skill_score_range", "scores",
                                   {"skill_score"}),
             CreateCheckConstraint("ck_scores_experience_score_range", "scores",
                                   {"experience_score"}),
             CreateCheckConstraint("ck_scores_education_score_range", "scores",
                                   {"education_score"}),
             CreateCheckConstraint("ck_resumes_experience_years_range", "resumes",
                                   {"experience_years"})>>
        \o CompositeIndexes

\* 0e9150a01e7e: upgrade()
SqliteCompatibleConstraints == CompositeIndexes \o UniqueConstraints

upgrade ==
    [r \in {Revisions[i] : i \in 1..Len(Revisions)} |->
        CASE r = "f6f4914742e2" -> InitialMigration
          [] r = "2b96a20dd9bd" -> <<>>
          [] r = "4f2bed31f0e2" -> AddIsActiveColumn
          [] r = "7f91e9655315" -> EnhanceConstraints
          [] r = "0e9150a01e7e" -> SqliteCompatibleConstraints]

\* The database under migration: its dialect, the revision it is at
\* (alembic_version), the revision the run upgrades to, the number of
\* operations of the next revision already run, its tables, columns, and
\* index and constraint names, and what it held when the run began.
Database(dialect, version, target, content) ==
    [dialect |-> dialect, version |-> version, target |-> target, step |-> 0,
     status |-> "running", tables |-> content.tables, columns |-> content.columns,
     names |-> content.names, begin |-> [version |-> version, content |-> content]]

NoContent == [tables |-> {}, columns |-> {}, names |-> {}]

\* What an operation adds.
Apply(operation, content) ==
    CASE operation.op = "create_table" ->
            [tables |-> content.tables \cup {operation.table},
             columns |-> content.columns \cup {<<operation.table, c>> : c \in operation.columns},
             names |-> content.names \cup operation.indexed]
      [] operation.op = "add_column" ->
            [content EXCEPT !.columns = @ \cup {<<operation.table, c>> : c \in operation.columns}]
      [] OTHER ->
            [content EXCEPT !.names = @ \cup {operation.name}]

\* The error an operation ends in, "" when it runs: a table, column, index
\* or constraint that already exists, a table or column that does not, and
\* on SQLite any ALTER that adds a constraint.
Error(operation, dialect, content) ==
    CASE operation.op = "create_table" ->
            IF operation.table \in content.tables \/ operation.indexed \cap content.names # {}
            THEN "DuplicateObject" ELSE ""
      [] operation.op = "add_column" ->
            IF operation.table \notin content.tables THEN "UndefinedObject"
            ELSE IF <<operation.table, operation.name>> \in content.columns
                 THEN "DuplicateObject" ELSE ""
      [] OTHER ->
            IF operation.op # "create_index" /\ dialect = "sqlite" THEN "NotImplementedError"
            ELSE IF \E c \in operation.columns : <<operation.table, c>> \notin content.columns
                 THEN "UndefinedObject"
            ELSE IF operation.name \in content.names THEN "DuplicateObject" ELSE ""

\* What the first n revisions declare, one operation after the other.
RECURSIVE DeclaredBy(_, _)
DeclaredBy(operations, content) ==
    IF operations = <<>> THEN content
    ELSE DeclaredBy(Tail(operations), Apply(Head(operations), content))

RECURSIVE Declared(_)
Declared(n) ==
    IF n = 0 THEN NoContent ELSE DeclaredBy(upgrade[Revisions[n]], Declared(n - 1))

VersionAt(n) == IF n = 0 THEN "" ELSE Revisions[n]

\* The store the other operations run on: the schema the revisions declare.
Migrated ==
    [Database("postgresql", VersionAt(Len(Revisions)), VersionAt(Len(Revisions)),
              Declared(Len(Revisions))) EXCEPT !.status = "done"]

\* ------------------------------------------------------- storage schema
\* roles.name: unique=True
UniqueRoleName(rs) ==
    \A a \in rs : \A b \in rs : a.name = b.name => a = b

\* Variant: the user_roles table without its uniqueness constraint (the
\* schema before revision 7f91e9655315).
UniqueUserRoleActive_absent(rows) == TRUE

\* uq_user_roles_user_role_active: UNIQUE (user_id, role_id, is_active)
UniqueUserRoleActive(rows) ==
    \A a \in rows : \A b \in rows :
        (a.user_id = b.user_id /\ a.role_id = b.role_id /\ a.is_active = b.is_active)
            => a = b

\* Variant: no foreign key on assigned_by.
ForeignKeysHold_no_assigned_by(us, rs, rows) ==
    \A a \in rows :
        /\ a.user_id \in us
        /\ \E r \in rs : r.id = a.role_id

\* user_roles foreign keys: user_id -> users.id, role_id -> roles.id,
\* assigned_by -> users.id (nullable)
ForeignKeysHold(us, rs, rows) ==
    \A a \in rows :
        /\ a.user_id \in us
        /\ \E r \in rs : r.id = a.role_id
        /\ (a.assigned_by = NoUser \/ a.assigned_by \in us)

\* ------------------------------------------------------------- responses
Response(op, result, user_id, role_id, id, name) ==
    [op |-> op, result |-> result, user_id |-> user_id, role_id |-> role_id,
     id |-> id, name |-> name]

NoReq == [user_id |-> NoUser, role_id |-> NoId]

\* The store once the migrations have run: no rows.
Init ==
    /\ users = {}
    /\ roles = {}
    /\ next_role_id = 1
    /\ user_roles = {}
    /\ next_user_role_id = 1
    /\ pc = [p \in Procs |-> "idle"]
    /\ req = [p \in Procs |-> NoReq]
    /\ schema = Migrated
    /\ last = Response("init", "ok", NoUser, NoId, NoId, NoName)

\* The store once the scripts' set-up has created its users and roles
\* (create_test_users / create_test_roles, demo_role_creation).
SeedRoles ==
    {[id |-> 1, name |-> "admin", is_active |-> TRUE,
      permissions |-> dumps(<<DocRead, DocWrite>>)],
     [id |-> 2, name |-> "editor", is_active |-> TRUE,
      permissions |-> dumps(<<DocRead>>)]}

InitSeeded ==
    /\ users = Users
    /\ roles = SeedRoles
    /\ next_role_id = 3
    /\ user_roles = {}
    /\ next_user_role_id = 1
    /\ pc = [p \in Procs |-> "idle"]
    /\ req = [p \in Procs |-> NoReq]
    /\ schema = Migrated
    /\ last = Response("init", "ok", NoUser, NoId, NoId, NoName)

\* ----------------------------------------------------------------- users
\* session.add(user); commit
create_user(u) ==
    /\ u \notin users
    /\ users' = users \cup {u}
    /\ last' = Response("create_user", "ok", u, NoId, NoId, NoName)
    /\ UNCHANGED <<schema, roles, next_role_id, user_roles, next_user_role_id, pc, req>>

\* session.delete(user); commit.  ON DELETE CASCADE on user_roles.user_id
\* removes the user's assignments; the assigned_by foreign key declares no
\* ON DELETE action, so a remaining reference makes the store reject the delete.
delete_user(u) ==
    /\ u \in users
    /\ LET remaining == {a \in user_roles : a.user_id # u}
       IN  IF ForeignKeysHold(users \ {u}, roles, remaining)
           THEN /\ users' = users \ {u}
                /\ user_roles' = remaining
                /\ last' = Response("delete_user", "ok", u, NoId, NoId, NoName)
           ELSE /\ UNCHANGED <<users, user_roles>>
                /\ last' = Response("delete_user", "IntegrityError", u, NoId, NoId, NoName)
    /\ UNCHANGED <<schema, roles, next_role_id, next_user_role_id, pc, req>>

\* ----------------------------------------------------------------- roles
\* Variant: the name lookup scoped to active roles.
RolesNamed_active_only(rs, name) == {r \in rs : r.name = name /\ r.is_active}

\* select(RoleRefactored).where(RoleRefactored.name == name)
RolesNamed(rs, name) == {r \in rs : r.name = name}

\* select(RoleRefactored).where(RoleRefactored.id == role_id)
RolesWithId(rs, rid) == {r \in rs : r.id = rid}

create_role(name, permissions, is_active) ==
    /\ RolesNamed(roles, name) = {} => next_role_id <= MaxRoleId
    /\ IF RolesNamed(roles, name) # {}
       THEN /\ last' = Response("create_role", "Conflict", NoUser, NoId, NoId, name)
            /\ UNCHANGED <<roles, next_role_id>>
       ELSE LET role == [id |-> next_role_id, name |-> name,
                         is_active |-> is_active, permissions |-> permissions]
            IN  IF UniqueRoleName(roles \cup {role})
                THEN /\ roles' = roles \cup {role}
                     /\ next_role_id' = next_role_id + 1
                     /\ last' = Response("create_role", "ok", NoUser, role.id, NoId, name)
                ELSE /\ last' = Response("create_role", "IntegrityError", NoUser, NoId, NoId, name)
                     /\ UNCHANGED <<roles, next_role_id>>
    /\ UNCHANGED <<schema, users, user_roles, next_user_role_id, pc, req>>

\* RoleUpdateSchema: "fields" are the fields the request sets
\* (role_data.dict(exclude_unset=True)); role_data.name is None when unset.
\* A field the request leaves unset carries the schema default (None), which
\* no code path reads; it is kept at one fixed value.
RoleUpdates ==
    {rd \in [fields : SUBSET {"name", "is_active", "permissions"},
             name : RoleNames, is_active : BOOLEAN, permissions : PermLists] :
        /\ "name" \notin rd.fields => rd.name = "admin"
        /\ "is_active" \notin rd.fields => rd.is_active = TRUE
        /\ "permissions" \notin rd.fields => rd.permissions = dumps(<<DocRead>>)}

NameOf(role_data) == IF "name" \in role_data.fields THEN role_data.name ELSE NoName

\* for field, value in update_data.items(): setattr(role, field, value)
ApplyUpdate(role, role_data) ==
    [id |-> role.id,
     name |-> IF "name" \in role_data.fields THEN role_data.name ELSE role.name,
     is_active |-> IF "is_active" \in role_data.fields
                   THEN role_data.is_active ELSE role.is_active,
     permissions |-> IF "permissions" \in role_data.fields
                     THEN role_data.permissions ELSE role.permissions]

\* Variant: the name check without the exclusion of the role itself.
NameConflict_including_self(rs, role, name) ==
    name # NoName /\ RolesNamed(rs, name) # {}

\* if role_data.name and role_data.name != role.name: <name taken?>
NameConflict(rs, role, name) ==
    name # NoName /\ name # role.name /\ RolesNamed(rs, name) # {}

\* Variant: the fields other than the name are written and committed before
\* the name is checked.
update_role_write_before_check(rid, role_data) ==
    /\ IF RolesWithId(roles, rid) = {}
       THEN /\ last' = Response("update_role", "NotFound", NoUser, rid, NoId, NameOf(role_data))
            /\ UNCHANGED roles
       ELSE LET role == CHOOSE r \in roles : r.id = rid
                written == [ApplyUpdate(role, role_data) EXCEPT !.name = role.name]
            IN  IF NameConflict(roles, role, NameOf(role_data))
                THEN /\ last' = Response("update_role", "Conflict", NoUser, rid, NoId, NameOf(role_data))
                     /\ roles' = (roles \ {role}) \cup {written}
                ELSE /\ roles' = (roles \ {role}) \cup {ApplyUpdate(role, role_data)}
                     /\ last' = Response("update_role", "ok", NoUser, rid, NoId, NameOf(role_data))
    /\ UNCHANGED <<schema, users, next_role_id, user_roles, next_user_role_id, pc, req>>

update_role(rid, role_data) ==
    /\ IF RolesWithId(roles, rid) = {}
       THEN /\ last' = Response("update_role", "NotFound", NoUser, rid, NoId, NameOf(role_data))
            /\ UNCHANGED roles
       ELSE LET role == CHOOSE r \in roles : r.id = rid
            IN  IF NameConflict(roles, role, NameOf(role_data))
                THEN /\ last' = Response("update_role", "Conflict", NoUser, rid, NoId, NameOf(role_data))
                     /\ UNCHANGED roles
                ELSE LET rs == (roles \ {role}) \cup {ApplyUpdate(role, role_data)}
                     IN  IF UniqueRoleName(rs)
                         THEN /\ roles' = rs
                              /\ last' = Response("update_role", "ok", NoUser, rid, NoId, NameOf(role_data))
                         ELSE /\ UNCHANGED roles
                              /\ last' = Response("update_role", "IntegrityError", NoUser, rid, NoId, NameOf(role_data))
    /\ UNCHANGED <<schema, users, next_role_id, user_roles, next_user_role_id, pc, req>>

\* Variant: the count without its is_active filter.
ActiveUsersOfRole_all_rows(rows, rid) ==
    Cardinality({a \in rows : a.role_id = rid})

\* select(func.count(UserRoleRefactored.id)).where(role_id == rid, is_active == True)
ActiveUsersOfRole(rows, rid) ==
    Cardinality({a \in rows : a.role_id = rid /\ a.is_active})

\* delete_role up to its last query: the role lookup and the active-user count.
delete_role_check(p, rid) ==
    /\ pc[p] = "idle"
    /\ IF RolesWithId(roles, rid) = {}
       THEN /\ last' = Response("delete_role", "NotFound", NoUser, rid, NoId, NoName)
            /\ UNCHANGED <<pc, req>>
       ELSE IF ActiveUsersOfRole(user_roles, rid) > 0
            THEN /\ last' = Response("delete_role", "Blocked", NoUser, rid, NoId, NoName)
                 /\ UNCHANGED <<pc, req>>
            ELSE /\ pc' = [pc EXCEPT ![p] = "delete"]
                 /\ req' = [req EXCEPT ![p] = [NoReq EXCEPT !.role_id = rid]]
                 /\ last' = Response("delete_role", "checked", NoUser, rid, NoId, NoName)
    /\ UNCHANGED <<schema, users, roles, next_role_id, user_roles, next_user_role_id>>

\* Variant: the role row is deleted and its assignments are left behind.
delete_role_commit_no_cascade(p) ==
    /\ pc[p] = "delete"
    /\ roles' = {r \in roles : r.id # req[p].role_id}
    /\ pc' = [pc EXCEPT ![p] = "idle"]
    /\ req' = [req EXCEPT ![p] = NoReq]
    /\ last' = Response("delete_role", "ok", NoUser, req[p].role_id, NoId, NoName)
    /\ UNCHANGED <<schema, users, next_role_id, user_roles, next_user_role_id>>

\* db.delete(role); commit.  ON DELETE CASCADE on user_roles.role_id removes
\* the role's assignments.
delete_role_commit(p) ==
    /\ pc[p] = "delete"
    /\ roles' = {r \in roles : r.id # req[p].role_id}
    /\ user_roles' = {a \in user_roles : a.role_id # req[p].role_id}
    /\ pc' = [pc EXCEPT ![p] = "idle"]
    /\ req' = [req EXCEPT ![p] = NoReq]
    /\ last' = Response("delete_role", "ok", NoUser, req[p].role_id, NoId, NoName)
    /\ UNCHANGED <<schema, users, next_role_id, next_user_role_id>>

\* ----------------------------------------------------------- assignments
\* select(UserRoleRefactored).where(user_id == uid, role_id == rid)
AssignmentsOf(rows, uid, rid) == {a \in rows : a.user_id = uid /\ a.role_id = rid}

\* Variant: the handler without its role lookup.
assign_role_to_user_check_no_role_lookup(p, uid, rid) ==
    /\ pc[p] = "idle"
    /\ IF uid \notin users
       THEN /\ last' = Response("assign", "NotFound", uid, rid, NoId, NoName)
            /\ UNCHANGED <<pc, req>>
       ELSE IF Cardinality(AssignmentsOf(user_roles, uid, rid)) > 1
            THEN /\ last' = Response("assign", "MultipleResultsFound", uid, rid, NoId, NoName)
                 /\ UNCHANGED <<pc, req>>
            ELSE IF AssignmentsOf(user_roles, uid, rid) # {}
                 THEN /\ last' = Response("assign", "Conflict", uid, rid, NoId, NoName)
                      /\ UNCHANGED <<pc, req>>
                 ELSE /\ pc' = [pc EXCEPT ![p] = "assign"]
                      /\ req' = [req EXCEPT ![p] = [user_id |-> uid, role_id |-> rid]]
                      /\ last' = Response("assign", "checked", uid, rid, NoId, NoName)
    /\ UNCHANGED <<schema, users, roles, next_role_id, user_roles, next_user_role_id>>

\* assign_role_to_user up to its last query: user lookup, role lookup and the
\* existing-assignment lookup, whose scalar_one_or_none() raises
\* MultipleResultsFound on more than one row (answered 500 by the handler).
assign_role_to_user_check(p, uid, rid) ==
    /\ pc[p] = "idle"
    /\ IF uid \notin users \/ RolesWithId(roles, rid) = {}
       THEN /\ last' = Response("assign", "NotFound", uid, rid, NoId, NoName)
            /\ UNCHANGED <<pc, req>>
       ELSE IF Cardinality(AssignmentsOf(user_roles, uid, rid)) > 1
            THEN /\ last' = Response("assign", "MultipleResultsFound", uid, rid, NoId, NoName)
                 /\ UNCHANGED <<pc, req>>
            ELSE IF AssignmentsOf(user_roles, uid, rid) # {}
                 THEN /\ last' = Response("assign", "Conflict", uid, rid, NoId, NoName)
                      /\ UNCHANGED <<pc, req>>
                 ELSE /\ pc' = [pc EXCEPT ![p] = "assign"]
                      /\ req' = [req EXCEPT ![p] = [user_id |-> uid, role_id |-> rid]]
                      /\ last' = Response("assign", "checked", uid, rid, NoId, NoName)
    /\ UNCHANGED <<schema, users, roles, next_role_id, user_roles, next_user_role_id>>

\* Variant: the write checks the foreign keys only.
StoreAccepts_fk_only(us, rs, rows) == ForeignKeysHold(us, rs, rows)

\* What the store checks when a user_roles row is written.
StoreAccepts(us, rs, rows) ==
    ForeignKeysHold(us, rs, rows) /\ UniqueUserRoleActive(rows)

\* UserRoleRefactored(user_id, role_id, assigned_by, is_active); db.add; commit
\* -- rolled back and answered 500 when the store rejects the row.  assigned_by
\* (the request's field, else the current user) and is_active (the request's
\* field) are read here, when the row is built.
assign_role_to_user_commit(p, assigned_by, is_active) ==
    /\ pc[p] = "assign"
    /\ LET assignment == [id |-> next_user_role_id,
                          user_id |-> req[p].user_id,
                          role_id |-> req[p].role_id,
                          assigned_by |-> assigned_by,
                          is_active |-> is_active]
       IN  IF StoreAccepts(users, roles, user_roles \cup {assignment})
           THEN /\ next_user_role_id <= MaxAssignId
                /\ user_roles' = user_roles \cup {assignment}
                /\ next_user_role_id' = next_user_role_id + 1
                /\ last' = Response("assign", "ok", assignment.user_id,
                                    assignment.role_id, assignment.id, NoName)
           ELSE /\ UNCHANGED <<user_roles, next_user_role_id>>
                /\ last' = Response("assign", "IntegrityError", assignment.user_id,
                                    assignment.role_id, NoId, NoName)
    /\ pc' = [pc EXCEPT ![p] = "idle"]
    /\ req' = [req EXCEPT ![p] = NoReq]
    /\ UNCHANGED <<schema, users, roles, next_role_id>>

\* select(UserRoleRefactored).where(id == assignment_id)
AssignmentsWithId(rows, id) == {a \in rows : a.id = id}

\* Variant: the commit without the assignment to is_active.
revoke_flag_kept(id) ==
    /\ \E a \in AssignmentsWithId(user_roles, id) : a.is_active
    /\ LET assignment == CHOOSE a \in user_roles : a.id = id
       IN  last' = Response("revoke", "ok", assignment.user_id,
                            assignment.role_id, id, NoName)
    /\ UNCHANGED <<schema, users, roles, next_role_id, user_roles, next_user_role_id, pc, req>>

\* assignment.is_active = False; commit -- the soft revoke the scripts perform
\* on an active assignment (on an inactive one it writes nothing); the update
\* is subject to uq_user_roles_user_role_active.
revoke(id) ==
    /\ \E a \in AssignmentsWithId(user_roles, id) : a.is_active
    /\ LET assignment == CHOOSE a \in user_roles : a.id = id
           rows == (user_roles \ {assignment})
                       \cup {[assignment EXCEPT !.is_active = FALSE]}
       IN  IF StoreAccepts(users, roles, rows)
           THEN /\ user_roles' = rows
                /\ last' = Response("revoke", "ok", assignment.user_id,
                                    assignment.role_id, id, NoName)
           ELSE /\ UNCHANGED user_roles
                /\ last' = Response("revoke", "IntegrityError", assignment.user_id,
                                    assignment.role_id, id, NoName)
    /\ UNCHANGED <<schema, users, roles, next_role_id, next_user_role_id, pc, req>>

\* Variant: the delete takes every row of the assignment's (user, role) pair.
remove_role_from_user_whole_pair(id) ==
    /\ IF AssignmentsWithId(user_roles, id) = {}
       THEN /\ last' = Response("remove", "NotFound", NoUser, NoId, id, NoName)
            /\ UNCHANGED user_roles
       ELSE LET assignment == CHOOSE a \in user_roles : a.id = id
            IN  /\ user_roles' = user_roles \
                       AssignmentsOf(user_roles, assignment.user_id, assignment.role_id)
                /\ last' = Response("remove", "ok", assignment.user_id,
                                    assignment.role_id, id, NoName)
    /\ UNCHANGED <<schema, users, roles, next_role_id, next_user_role_id, pc, req>>

\* remove_role_from_user: the assignment lookup (404 when absent), then
\* db.delete(assignment); commit.
remove_role_from_user(id) ==
    /\ IF AssignmentsWithId(user_roles, id) = {}
       THEN /\ last' = Response("remove", "NotFound", NoUser, NoId, id, NoName)
            /\ UNCHANGED user_roles
       ELSE LET assignment == CHOOSE a \in user_roles : a.id = id
            IN  /\ user_roles' = user_roles \ {assignment}
                /\ last' = Response("remove", "ok", assignment.user_id,
                                    assignment.role_id, id, NoName)
    /\ UNCHANGED <<schema, users, roles, next_role_id, next_user_role_id, pc, req>>

\* ---------------------------------------------------------------- access
\* The role an assignment row points to (ur.role).
RoleOf(rs, ur) == CHOOSE r \in rs : r.id = ur.role_id

Range(seq) == {seq[i] : i \in 1..Len(seq)}

\* ------------------------------------------------------- permission lists
\* An entry that is a string with a character other than whitespace.
IsPermission(e) == e # None /\ strip(e) # <<>>

\* Role.get_permissions_list(): the persisted text deserialized; the empty
\* list when the field is unset or its text is malformed; entries that are
\* null, empty or whitespace are not returned.
get_permissions_list(role) ==
    IF role.permissions = None THEN <<>>
    ELSE LET parsed == loads(role.permissions)
         IN  IF parsed.ok THEN SelectSeq(parsed.value, IsPermission) ELSE <<>>

\* The entries that are permissions, each trimmed, in their order.
RECURSIVE Trimmed(_)
Trimmed(values) ==
    IF values = <<>> THEN <<>>
    ELSE IF IsPermission(Head(values))
         THEN <<strip(Head(values))>> \o Trimmed(Tail(values))
         ELSE Trimmed(Tail(values))

\* Variant: each new value is put in front of the list built so far.
RECURSIVE Deduplicated_prepend(_, _)
Deduplicated_prepend(values, seen) ==
    IF values = <<>> THEN seen
    ELSE IF Head(values) \in Range(seen)
         THEN Deduplicated_prepend(Tail(values), seen)
         ELSE Deduplicated_prepend(Tail(values), <<Head(values)>> \o seen)

\* Variant: the duplicate check keeps the last occurrence of a value.
RECURSIVE Deduplicated_keep_last(_, _)
Deduplicated_keep_last(values, seen) ==
    IF values = <<>> THEN seen
    ELSE Deduplicated_keep_last(Tail(values),
             Append(SelectSeq(seen, LAMBDA e : e # Head(values)), Head(values)))

\* Duplicates collapsed, first-seen order kept; seen is the list built so far.
RECURSIVE Deduplicated(_, _)
Deduplicated(values, seen) ==
    IF values = <<>> THEN seen
    ELSE IF Head(values) \in Range(seen)
         THEN Deduplicated(Tail(values), seen)
         ELSE Deduplicated(Tail(values), Append(seen, Head(values)))

\* Role.set_permissions_list(values): the role after the call -- entries
\* trimmed, empty and null entries dropped, duplicates collapsed, the result
\* serialized into the permissions field.
set_permissions_list(role, values) ==
    [role EXCEPT !.permissions = dumps(Deduplicated(Trimmed(values), <<>>))]

\* Variant: the value is appended without the test for its presence.
add_permission_unchecked(role, value) ==
    LET permission == strip(value)
        current == get_permissions_list(role)
    IN  IF permission = <<>>
        THEN [role |-> role, result |-> FALSE]
        ELSE [role |-> set_permissions_list(role, Append(current, permission)),
              result |-> TRUE]

\* Variant: the value is tested and appended as passed, without strip().
add_permission_untrimmed(role, value) ==
    LET current == get_permissions_list(role)
    IN  IF value = <<>> \/ value \in Range(current)
        THEN [role |-> role, result |-> FALSE]
        ELSE [role |-> set_permissions_list(role, Append(current, value)),
              result |-> TRUE]

\* Role.add_permission(value): the role after the call and the value
\* returned -- False, and no change, when the trimmed value is empty or
\* already in the list; else the value is appended and the list stored.
add_permission(role, value) ==
    LET permission == strip(value)
        current == get_permissions_list(role)
    IN  IF permission = <<>> \/ permission \in Range(current)
        THEN [role |-> role, result |-> FALSE]
        ELSE [role |-> set_permissions_list(role, Append(current, permission)),
              result |-> TRUE]

\* Variant: the removal drops the entries from the value's position on.
RemoveFrom_truncate(current, value) ==
    SubSeq(current, 1, (CHOOSE i \in 1..Len(current) : current[i] = value) - 1)

\* The list without the value.
RemoveFrom(current, value) == SelectSeq(current, LAMBDA e : e # value)

\* Role.remove_permission(value): False, and no change, when the value is
\* empty or not in the list; else the value is removed and the list stored.
remove_permission(role, value) ==
    LET current == get_permissions_list(role)
    IN  IF value = <<>> \/ value \notin Range(current)
        THEN [role |-> role, result |-> FALSE]
        ELSE [role |-> set_permissions_list(role, RemoveFrom(current, value)),
              result |-> TRUE]

\* The wildcard permission.
Wildcard == <<"*">>

\* Variant: the test of membership alone.
has_permission_no_wildcard(role, permission) ==
    permission \in Range(get_permissions_list(role))

\* Role.has_permission(permission): the permission, or the wildcard, is in the list.
has_permission(role, permission) ==
    LET current == get_permissions_list(role)
    IN  Wildcard \in Range(current) \/ permission \in Range(current)

\* Role.has_any_permission(permissions)
has_any_permission(role, permissions) ==
    \E i \in 1..Len(permissions) : has_permission(role, permissions[i])

\* Role.has_all_permissions(permissions)
has_all_permissions(role, permissions) ==
    \A i \in 1..Len(permissions) : has_permission(role, permissions[i])

\* The key of the group of permissions that have no ":" ("general").
FallbackLevel == <<"g">>

\* Variant: the permission is split at its last ":".
LevelOf_last_separator(permission) ==
    IF ":" \in Range(permission)
    THEN SubSeq(permission, 1,
                (CHOOSE i \in 1..Len(permission) :
                    /\ permission[i] = ":"
                    /\ \A j \in (i + 1)..Len(permission) : permission[j] # ":") - 1)
    ELSE FallbackLevel

\* The text before the first ":" of a permission, the fallback key without one.
LevelOf(permission) ==
    IF ":" \in Range(permission)
    THEN SubSeq(permission, 1,
                (CHOOSE i \in 1..Len(permission) :
                    /\ permission[i] = ":"
                    /\ \A j \in 1..(i - 1) : permission[j] # ":") - 1)
    ELSE FallbackLevel

\* Role.get_permissions_by_level(): group key -> the permissions of the group.
get_permissions_by_level(role) ==
    LET current == get_permissions_list(role)
    IN  [level \in {LevelOf(current[i]) : i \in 1..Len(current)} |->
            SelectSeq(current, LAMBDA e : LevelOf(e) = level)]

\* User.has_role(role_name): an active assignment to an active role of that name.
has_role(u, role_name) ==
    \E ur \in user_roles :
        /\ ur.user_id = u
        /\ ur.is_active
        /\ RoleOf(roles, ur).is_active
        /\ RoleOf(roles, ur).name = role_name

\* Variant: the loop without the test of ur.role.is_active.
all_permissions_any_role(u) ==
    UNION {Range(get_permissions_list(RoleOf(roles, ur))) :
             ur \in {x \in user_roles : x.user_id = u /\ x.is_active}}

\* for ur in user.roles:
\*     if ur.is_active and ur.role.is_active:
\*         user_permissions.extend(ur.role.get_permissions_list())
\* all_permissions = set(user_permissions)
all_permissions(u) ==
    UNION {Range(get_permissions_list(RoleOf(roles, ur))) :
             ur \in {x \in user_roles : /\ x.user_id = u
                                        /\ x.is_active
                                        /\ RoleOf(roles, x).is_active}}

\* Role(name=..., is_active=True): a role row whose permissions field is unset.
NewRole == [id |-> 1, name |-> "editor", is_active |-> TRUE, permissions |-> None]

\* What a call on the role returned: the method, its argument, its return
\* value (None for set_permissions_list), and the permissions field as it
\* was before the call.
Returned(op, arg, result, before) ==
    [op |-> op, arg |-> arg, result |-> result, before |-> before]

\* All lists of at most n entries.
RECURSIVE ListsOver(_, _)
ListsOver(entries, n) ==
    IF n = 0 THEN {<<>>}
    ELSE LET shorter == ListsOver(entries, n - 1)
         IN  shorter \cup {Append(l, e) : l \in shorter, e \in entries}

\* The role a script constructs, with its permissions unset or set from an
\* earlier list, and the list the script is about to pass (last.arg).
InitCodec ==
    /\ users = {}
    /\ roles \in {{NewRole}, {set_permissions_list(NewRole, <<DocWrite, DocRead>>)}}
    /\ next_role_id = 2
    /\ user_roles = {}
    /\ next_user_role_id = 1
    /\ pc = [p \in Procs |-> "idle"]
    /\ req = [p \in Procs |-> NoReq]
    /\ schema = Migrated
    /\ last \in {Returned("init", values, None, None) :
                     values \in ListsOver(PermEntries, MaxListLen)}

\* role.set_permissions_list(values); session.commit()
SetPermissionsList(rid, values) ==
    /\ \E role \in RolesWithId(roles, rid) :
          LET after == set_permissions_list(role, values)
          IN  /\ roles' = (roles \ {role}) \cup {after}
              /\ last' = Returned("set_permissions_list", values, None, role.permissions)
    /\ UNCHANGED <<schema, users, next_role_id, user_roles, next_user_role_id, pc, req>>

\* The role the scripts call add_permission and remove_permission on: its
\* permissions unset, set from a list, set to ["*"], or constructed from a
\* raw text with empty and whitespace-only entries.
InitPerms ==
    /\ users = {}
    /\ roles \in {{NewRole},
                  {set_permissions_list(NewRole, <<DocRead, DocWrite>>)},
                  {set_permissions_list(NewRole, <<Wildcard>>)},
                  {[NewRole EXCEPT !.permissions =
                        dumps(<<DocRead, <<>>, Plain, <<" ", " ", " ">>>>)]}}
    /\ next_role_id = 2
    /\ user_roles = {}
    /\ next_user_role_id = 1
    /\ pc = [p \in Procs |-> "idle"]
    /\ req = [p \in Procs |-> NoReq]
    /\ schema = Migrated
    /\ last = Returned("init", <<>>, None, None)

\* added = role.add_permission(value); session.commit()
AddPermission(rid, value) ==
    /\ \E role \in RolesWithId(roles, rid) :
          LET call == add_permission(role, value)
          IN  /\ call.result => Len(get_permissions_list(role)) < MaxPerms
              /\ roles' = (roles \ {role}) \cup {call.role}
              /\ last' = Returned("add_permission", value, call.result, role.permissions)
    /\ UNCHANGED <<schema, users, next_role_id, user_roles, next_user_role_id, pc, req>>

\* removed = role.remove_permission(value); session.commit()
RemovePermission(rid, value) ==
    /\ \E role \in RolesWithId(roles, rid) :
          LET call == remove_permission(role, value)
          IN  /\ roles' = (roles \ {role}) \cup {call.role}
              /\ last' = Returned("remove_permission", value, call.result, role.permissions)
    /\ UNCHANGED <<schema, users, next_role_id, user_roles, next_user_role_id, pc, req>>

\* --------------------------------------------------------- role listing
\* str.lower() / ILIKE's case folding, on one character.
LowerChar(c) ==
    CASE c = "A" -> "a"
      [] c = "B" -> "b"
      [] OTHER -> c

lower(text) == [i \in 1..Len(text) |-> LowerChar(text[i])]

\* SQL LIKE: % matches any run of characters, _ matches any one character,
\* every other character matches itself.
RECURSIVE Like(_, _)
Like(text, pattern) ==
    IF pattern = <<>> THEN text = <<>>
    ELSE IF Head(pattern) = "%"
         THEN \/ Like(text, Tail(pattern))
              \/ text # <<>> /\ Like(Tail(text), pattern)
    ELSE IF text = <<>> THEN FALSE
    ELSE /\ Head(pattern) = "_" \/ Head(pattern) = Head(text)
         /\ Like(Tail(text), Tail(pattern))

\* column.ilike(pattern): NULL ILIKE pattern is NULL, which a WHERE drops.
ilike(column, pattern) == column # None /\ Like(lower(column), lower(pattern))

\* search_term = f"%{search}%"
\* or_(Role.name.ilike(search_term), Role.description.ilike(search_term))
SearchMatches(role, search) ==
    LET search_term == <<"%">> \o search \o <<"%">>
    IN  ilike(role.name, search_term) \/ ilike(role.description, search_term)

\* query = select(Role); if active_only: where is_active; if search: where ...
\* (an empty search string is falsy, so it adds no filter).
Selected(rows, active_only, search) ==
    {r \in rows : /\ active_only => r.is_active
                  /\ (search # None /\ search # <<>>) => SearchMatches(r, search)}

\* The orders ORDER BY created_at DESC may deliver the rows in: every
\* arrangement of the rows with created_at non-increasing (rows with equal
\* created_at come in an order of the database's choosing).
OrderedByCreatedAtDesc(rows) ==
    {s \in [1..Cardinality(rows) -> rows] :
        /\ \A i, j \in 1..Cardinality(rows) : i # j => s[i] # s[j]
        /\ \A i, j \in 1..Cardinality(rows) : i < j => s[i].created_at >= s[j].created_at}

\* OFFSET skip LIMIT limit
Page(s, skip, limit) ==
    IF skip >= Len(s) THEN <<>>
    ELSE SubSeq(s, skip + 1, IF skip + limit < Len(s) THEN skip + limit ELSE Len(s))

\* The roles table the listing runs over: name and description as text,
\* created_at as the transaction's timestamp (rows inserted in one
\* transaction share it).
ListedRole(id, name, description, is_active, created_at) ==
    [id |-> id, name |-> name, description |-> description,
     is_active |-> is_active, created_at |-> created_at, permissions |-> None]

InitList ==
    /\ users = {}
    /\ \E a1, a2, a3 \in BOOLEAN : \E t2 \in {1, 2} :
          roles = {ListedRole(1, <<"A", "b">>, None, a1, 1),
                   ListedRole(2, <<"b", "_", "a">>, <<"x", "B">>, a2, t2),
                   ListedRole(3, <<"x">>, <<"a", "%">>, a3, 2)}
    /\ next_role_id = 4
    /\ user_roles = {}
    /\ next_user_role_id = 1
    /\ pc = [p \in Procs |-> "idle"]
    /\ req = [p \in Procs |-> NoReq]
    /\ schema = Migrated
    /\ last = Returned("init", <<>>, None, None)

\* What the request may carry as search.
Searches == {None, <<>>, <<"a">>, <<"a", "B">>, <<"_">>, <<"%">>, <<"b", "_">>, <<"y">>}

\* GET /roles?skip=&limit=&active_only=&search=
get_roles(skip, limit, active_only, search) ==
    /\ \E s \in OrderedByCreatedAtDesc(Selected(roles, active_only, search)) :
          last' = Returned("get_roles",
                           [skip |-> skip, limit |-> limit,
                            active_only |-> active_only, search |-> search],
                           [i \in 1..Len(Page(s, skip, limit)) |-> Page(s, skip, limit)[i].id],
                           None)
    /\ UNCHANGED <<schema, users, roles, next_role_id, user_roles, next_user_role_id, pc, req>>

\* ------------------------------------------------------ role statistics
\* .limit(5)
PopularLimit == 5

\* Role JOIN UserRole ON Role.id = UserRole.role_id: one joined row per
\* assignment whose role exists.  The user_role side of a joined row is the
\* set holding the assignment; the empty set stands for a side that is NULL.
InnerJoin(rs, urs) ==
    UNION {{[role |-> r, user_role |-> {a}] : a \in {x \in urs : x.role_id = r.id}} :
              r \in rs}

\* .where(UserRole.is_active == True)
\* .group_by(Role.id, Role.name, Role.description)
\* select(Role.name, Role.description, func.count(UserRole.id).label('user_count'))
GroupedCounts_unfiltered(joined) ==
    {[name |-> r.name,
      user_count |-> Cardinality({j \in joined : j.role = r /\ j.user_role # {}})] :
        r \in {j.role : j \in joined}}

GroupedCounts(joined) ==
    LET kept == {j \in joined : \E a \in j.user_role : a.is_active}
    IN  {[name |-> r.name,
          user_count |-> Cardinality({j \in kept : j.role = r /\ j.user_role # {}})] :
            r \in {j.role : j \in kept}}

\* .order_by(func.count(UserRole.id).desc()): every arrangement of the groups
\* with user_count non-increasing (groups with equal counts come in an order
\* of the database's choosing).
RECURSIVE OrderedByUserCountDesc_ascending(_)
OrderedByUserCountDesc_ascending(groups) ==
    IF groups = {} THEN {<<>>}
    ELSE LET first == {g \in groups : \A h \in groups : g.user_count <= h.user_count}
         IN  UNION {{<<g>> \o s : s \in OrderedByUserCountDesc_ascending(groups \ {g})} :
                       g \in first}

RECURSIVE OrderedByUserCountDesc(_)
OrderedByUserCountDesc(groups) ==
    IF groups = {} THEN {<<>>}
    ELSE LET first == {g \in groups : \A h \in groups : g.user_count >= h.user_count}
         IN  UNION {{<<g>> \o s : s \in OrderedByUserCountDesc(groups \ {g})} :
                       g \in first}

\* .limit(n)
Limit(s, n) == SubSeq(s, 1, IF Len(s) < n THEN Len(s) ELSE n)

\* The popular-roles query of the statistics endpoint: the results it may
\* deliver.
PopularRoles(rs, urs) ==
    {Limit(s, PopularLimit) : s \in OrderedByUserCountDesc(GroupedCounts(InnerJoin(rs, urs)))}

\* select(func.count(Role.id)), the same .where(Role.is_active == True), and
\* the permission statistics over the roles whose permissions are not NULL
\* (the average length is carried as the pair total length, row count).
RECURSIVE TotalLength(_)
TotalLength(rs) ==
    IF rs = {} THEN 0
    ELSE LET r == CHOOSE x \in rs : TRUE
         IN  Len(r.permissions) + TotalLength(rs \ {r})

Statistics(rs, popular) ==
    LET total_count == Cardinality(rs)
        active_count == Cardinality({r \in rs : r.is_active})
        with_permissions == {r \in rs : r.permissions # None}
    IN  [total_roles |-> total_count,
         active_roles |-> active_count,
         inactive_roles |-> total_count - active_count,
         popular_roles |-> popular,
         roles_with_permissions |-> Cardinality(with_permissions),
         permissions_length |-> TotalLength(with_permissions)]

\* GET /roles/stats/overview (requested once over each store).
get_role_statistics ==
    /\ last.op = "init"
    /\ \E popular \in PopularRoles(roles, user_roles) :
          last' = Returned("get_role_statistics", <<>>, Statistics(roles, popular), None)
    /\ UNCHANGED <<schema, users, roles, next_role_id, user_roles, next_user_role_id, pc, req>>

\* Role LEFT OUTER JOIN UserRole ON Role.id = UserRole.role_id: the joined
\* rows of the inner join, and for each role without an assignment one row
\* whose user_role side is NULL.
OuterJoin(rs, urs) ==
    InnerJoin(rs, urs)
        \cup {[role |-> r, user_role |-> {}] : r \in {x \in rs : \A a \in urs : a.role_id # x.id}}

\* The role statistics query of the scripts: outerjoin, then
\* .where(UserRole.is_active == True), group_by, order_by count desc, limit(5)
\* (run once over each store).
test_query_functions ==
    /\ last.op = "init"
    /\ \E s \in OrderedByUserCountDesc(GroupedCounts(OuterJoin(roles, user_roles))) :
          last' = Returned("test_query_functions", <<>>, Limit(s, PopularLimit), None)
    /\ UNCHANGED <<schema, users, roles, next_role_id, user_roles, next_user_role_id, pc, req>>

\* The stores the statistics are taken over: roles 1..n, with the role
\* numbered `inactive` (if any) disabled, and for each role one of: no
\* assignment, one revoked assignment, one active and one revoked
\* assignment, two active assignments.
StatRoleNames ==
    <<"admin", "editor", "viewer", "guest", "moderator", "analyst", "manager", "auditor">>

Holders == {"none", "revoked", "one", "two"}

StatRows(rid, holders) ==
    LET row(id, u, is_active) ==
            [id |-> id, user_id |-> u, role_id |-> rid,
             assigned_by |-> NoUser, is_active |-> is_active]
    IN  CASE holders = "none" -> {}
          [] holders = "revoked" -> {row(2 * rid - 1, "u1", FALSE)}
          [] holders = "one" -> {row(2 * rid - 1, "u1", TRUE), row(2 * rid, "u2", FALSE)}
          [] holders = "two" -> {row(2 * rid - 1, "u1", TRUE), row(2 * rid, "u2", TRUE)}

InitStats ==
    /\ users = Users
    /\ \E n \in 0..MaxStatRoles : \E holders \in [1..n -> Holders] : \E inactive \in 0..1 :
          /\ roles = {[id |-> i, name |-> StatRoleNames[i], is_active |-> i # inactive,
                       permissions |-> IF i = 1 THEN None ELSE dumps(<<DocRead>>)] :
                         i \in 1..n}
          /\ next_role_id = n + 1
          /\ user_roles = UNION {StatRows(i, holders[i]) : i \in 1..n}
          /\ next_user_role_id = 2 * n + 1
    /\ pc = [p \in Procs |-> "idle"]
    /\ req = [p \in Procs |-> NoReq]
    /\ schema = Migrated
    /\ last = Returned("init", <<>>, None, None)

\* ---------------------------------------------------------- user emails
\* The users table with its email column: rows [id, email].
\* sa.Column('email', sa.String(length=320), nullable=False, unique=True):
\* no two rows with the same email, compared as stored.
UniqueEmail(rows) ==
    \A a, b \in rows : a.email = b.email => a.id = b.id

\* op.create_index('ix_users_email_lower', 'users', [sa.text('LOWER(email)')]):
\* an index, not a unique one; it constrains nothing.
EmailLowerIndex(rows) == TRUE

\* What the store checks when a users row is written.
UsersAccepts(rows) ==
    /\ \A a, b \in rows : a.id = b.id => a = b
    /\ UniqueEmail(rows)
    /\ EmailLowerIndex(rows)

\* The emails the scripts create users with.
Emails == {<<"a", "@", "x">>, <<"A", "@", "x">>, <<"b", "@", "x">>, <<"a", "@", "X">>}

\* user = User(id=uuid.uuid4(), email=email, ...); db.add(user); db.commit()
create_test_user(id, email) ==
    /\ \A u \in users : u.id # id
    /\ LET user == [id |-> id, email |-> email]
       IN  IF UsersAccepts(users \cup {user})
           THEN /\ users' = users \cup {user}
                /\ last' = Returned("create_test_user", email, "ok", None)
           ELSE /\ UNCHANGED users
                /\ last' = Returned("create_test_user", email, "IntegrityError", None)
    /\ UNCHANGED <<schema, roles, next_role_id, user_roles, next_user_role_id, pc, req>>

\* delete(UserRole); delete(Role); delete(User); commit
clear_test_data ==
    /\ users # {}
    /\ user_roles' = {}
    /\ roles' = {}
    /\ users' = {}
    /\ last' = Returned("clear_test_data", <<>>, "ok", None)
    /\ UNCHANGED <<schema, next_role_id, next_user_role_id, pc, req>>

\* The ids uuid.uuid4() hands out.
UserIds == Users \cup {"u3"}

\* ------------------------------------------------------------ alembic upgrade
\* `alembic upgrade <target>` on a database at some revision (a new database
\* is at none), holding what the revisions up to it declare.
InitMigrations ==
    /\ users = {}
    /\ roles = {}
    /\ next_role_id = 1
    /\ user_roles = {}
    /\ next_user_role_id = 1
    /\ pc = [p \in Procs |-> "idle"]
    /\ req = [p \in Procs |-> NoReq]
    /\ last = Returned("init", <<>>, None, None)
    /\ \E dialect \in {"postgresql", "sqlite"} :
       \E from \in 0..(Len(Revisions) - 1) : \E to \in (from + 1)..Len(Revisions) :
          schema = Database(dialect, VersionAt(from), VersionAt(to), Declared(from))

\* The revision the run applies next: the one whose down_revision is the
\* database's version.
NextRevision == CHOOSE r \in DOMAIN down_revision : down_revision[r] = schema.version

Content == [tables |-> schema.tables, columns |-> schema.columns, names |-> schema.names]

\* The next operation of the revision's upgrade() runs.
run_operation ==
    /\ schema.status = "running"
    /\ schema.step < Len(upgrade[NextRevision])
    /\ LET operation == upgrade[NextRevision][schema.step + 1]
           after == Apply(operation, Content)
       IN  /\ Error(operation, schema.dialect, Content) = ""
           /\ schema' = [schema EXCEPT !.step = @ + 1, !.tables = after.tables,
                                        !.columns = after.columns, !.names = after.names]
           /\ last' = Returned(operation.op, operation.name, "ok", None)
    /\ UNCHANGED <<users, roles, next_role_id, user_roles, next_user_role_id, pc, req>>

\* The next operation raises: the run is aborted.  PostgreSQL has
\* transactional DDL, so the run's transaction is rolled back; SQLite keeps
\* what the run had done.
fail_operation ==
    /\ schema.status = "running"
    /\ schema.step < Len(upgrade[NextRevision])
    /\ LET operation == upgrade[NextRevision][schema.step + 1]
           error == Error(operation, schema.dialect, Content)
       IN  /\ error # ""
           /\ schema' = IF schema.dialect = "postgresql"
                         THEN [schema EXCEPT !.status = "failed",
                                             !.step = 0,
                                             !.version = schema.begin.version,
                                             !.tables = schema.begin.content.tables,
                                             !.columns = schema.begin.content.columns,
                                             !.names = schema.begin.content.names]
                         ELSE [schema EXCEPT !.status = "failed"]
           /\ last' = Returned(operation.op, operation.name, error, None)
    /\ UNCHANGED <<users, roles, next_role_id, user_roles, next_user_role_id, pc, req>>

\* The revision's upgrade() returned: alembic_version is set to it.
finish_revision ==
    /\ schema.status = "running"
    /\ schema.step = Len(upgrade[NextRevision])
    /\ schema' = [schema EXCEPT !.version = NextRevision, !.step = 0,
                                 !.status = IF NextRevision = schema.target
                                            THEN "done" ELSE "running"]
    /\ last' = Returned("upgrade", NextRevision, "ok", None)
    /\ UNCHANGED <<users, roles, next_role_id, user_roles, next_user_role_id, pc, req>>

\* ------------------------------------------------------- specifications
RoleIds == 1..MaxRoleId
AssignIds == 1..MaxAssignId

\* The assignment ledger over a seeded store: concurrent assign and
\* delete_role requests, revoke, remove and user deletion.
Next ==
    \/ \E p \in Procs : \E uid \in Users : \E rid \in RoleIds :
          assign_role_to_user_check(p, uid, rid)
    \/ \E p \in Procs : \E assigned_by \in Users : \E is_active \in BOOLEAN :
          assign_role_to_user_commit(p, assigned_by, is_active)
    \/ \E id \in AssignIds : revoke(id)
    \/ \E id \in AssignIds : remove_role_from_user(id)
    \/ \E u \in Users : delete_user(u)
    \/ \E p \in Procs : \E rid \in RoleIds : delete_role_check(p, rid)
    \/ \E p \in Procs : delete_role_commit(p)

Spec == InitSeeded /\ [][Next]_vars

\* Set-up and role administration from an empty store: users are created,
\* roles are created, updated and deleted.
NextRoles ==
    \/ \E u \in Users : create_user(u)
    \/ \E name \in RoleNames : \E permissions \in PermLists : \E is_active \in BOOLEAN :
          create_role(name, permissions, is_active)
    \/ \E rid \in RoleIds : \E role_data \in RoleUpdates : update_role(rid, role_data)
    \/ \E p \in Procs : \E rid \in RoleIds : delete_role_check(p, rid)
    \/ \E p \in Procs : delete_role_commit(p)

SpecRoles == Init /\ [][NextRoles]_vars

\* Grants over a seeded store: assign, revoke and role updates (disabling a
\* role, changing its permissions).
\* Requests come one at a time, from the actor CurrentUser.
CurrentUser == "u1"

NextAccess ==
    \/ \E uid \in Users : \E rid \in RoleIds :
          assign_role_to_user_check("p1", uid, rid)
    \/ \E is_active \in BOOLEAN :
          assign_role_to_user_commit("p1", CurrentUser, is_active)
    \/ \E id \in AssignIds : revoke(id)
    \/ \E rid \in RoleIds : \E role_data \in RoleUpdates : update_role(rid, role_data)

SpecAccess == InitSeeded /\ [][NextAccess]_vars

\* The permission codec: set_permissions_list called on one role with the
\* script's list (a first time, and again), and with the list
\* get_permissions_list returns.
NextCodec ==
    \/ SetPermissionsList(1, last.arg)
    \/ \E role \in RolesWithId(roles, 1) :
          SetPermissionsList(1, get_permissions_list(role))

SpecCodec == InitCodec /\ [][NextCodec]_vars

\* Permission management on one role: add_permission and remove_permission.
NextPerms ==
    \/ \E value \in PermArgs : AddPermission(1, value)
    \/ \E value \in PermArgs : RemovePermission(1, value)

SpecPerms == InitPerms /\ [][NextPerms]_vars

\* Role listing over a stored set of roles.
NextList ==
    \E skip \in 0..MaxSkip : \E limit \in 1..MaxLimit :
    \E active_only \in BOOLEAN : \E search \in Searches :
        get_roles(skip, limit, active_only, search)

SpecList == InitList /\ [][NextList]_vars

\* Role statistics over a stored set of roles and assignments.
NextStats ==
    \/ get_role_statistics
    \/ test_query_functions

SpecStats == InitStats /\ [][NextStats]_vars

\* The mutating requests together, over a store holding the users and one
\* role: create_role, update_role, delete_role, assign and remove, the
\* two-phase ones by two concurrent requests.
InitMutations ==
    /\ users = Users
    /\ roles = {r \in SeedRoles : r.id = 1}
    /\ next_role_id = 2
    /\ user_roles = {}
    /\ next_user_role_id = 1
    /\ pc = [p \in Procs |-> "idle"]
    /\ req = [p \in Procs |-> NoReq]
    /\ schema = Migrated
    /\ last = Response("init", "ok", NoUser, NoId, NoId, NoName)

NextMutations ==
    \/ \E name \in RoleNames : create_role(name, dumps(<<DocRead>>), TRUE)
    \/ \E rid \in RoleIds : \E role_data \in {rd \in RoleUpdates : "permissions" \notin rd.fields} :
          update_role(rid, role_data)
    \/ \E p \in Procs : \E rid \in RoleIds : delete_role_check(p, rid)
    \/ \E p \in Procs : delete_role_commit(p)
    \/ \E p \in Procs : \E rid \in RoleIds : assign_role_to_user_check(p, CurrentUser, rid)
    \/ \E p \in Procs : assign_role_to_user_commit(p, CurrentUser, TRUE)
    \/ \E id \in AssignIds : remove_role_from_user(id)

SpecMutations == InitMutations /\ [][NextMutations]_vars

\* User creation over an empty users table.
NextUsers ==
    \/ \E id \in UserIds : \E email \in Emails : create_test_user(id, email)
    \/ clear_test_data

SpecUsers == Init /\ [][NextUsers]_vars

\* The permissions field written in every way the sources write it: by the
\* constructor from a raw text, by set_permissions_list, add_permission and
\* remove_permission, and by an update_role patch.
RawTexts ==
    {dumps(<<DocRead, <<>>, Plain, <<" ", " ", " ">>>>),
     dumps(<<DocRead, DocWrite, DocRead>>),
     <<"[", "\"", "d">>}

InitField ==
    /\ users = {}
    /\ roles \in {{NewRole}} \cup {{[NewRole EXCEPT !.permissions = text]} : text \in RawTexts}
    /\ next_role_id = 2
    /\ user_roles = {}
    /\ next_user_role_id = 1
    /\ pc = [p \in Procs |-> "idle"]
    /\ req = [p \in Procs |-> NoReq]
    /\ schema = Migrated
    /\ last = Returned("init", <<>>, None, None)

FieldUpdates ==
    {[fields |-> {"permissions"}, name |-> "admin", is_active |-> TRUE, permissions |-> text] :
        text \in RawTexts}

NextField ==
    \/ \E values \in {<<>>, <<DocWrite, PaddedDocRead, DocWrite>>} : SetPermissionsList(1, values)
    \/ \E value \in {DocRead, DocWrite, Plain, <<>>} : AddPermission(1, value)
    \/ \E value \in {DocRead, DocWrite, Plain} : RemovePermission(1, value)
    \/ \E role_data \in FieldUpdates : update_role(1, role_data)

SpecField == InitField /\ [][NextField]_vars

\* Schema migration: alembic upgrade.
NextMigrations ==
    \/ run_operation
    \/ fail_operation
    \/ finish_revision

SpecMigrations == InitMigrations /\ [][NextMigrations]_vars

\* ------------------------------------------------------------ properties
ActiveAssignmentsOf(rows, uid, rid) == {a \in AssignmentsOf(rows, uid, rid) : a.is_active}

\* The step is assign_role_to_user's check phase for (uid, rid).
IsAssignCheck(uid, rid) ==
    /\ last'.op = "assign"
    /\ last'.user_id = uid
    /\ last'.role_id = rid
    /\ last'.result \in {"NotFound", "MultipleResultsFound", "Conflict", "checked"}

\* The step is request p's write and commit.
IsAssignCommit(p) == pc[p] = "assign" /\ pc'[p] = "idle"

\* The step is delete_role's check phase for rid.
IsDeleteRoleCheck(rid) ==
    /\ last'.op = "delete_role"
    /\ last'.role_id = rid
    /\ last'.result \in {"NotFound", "Blocked", "checked"}

IsDeleteRoleCommit(p) == pc[p] = "delete" /\ pc'[p] = "idle"

\* C1: in every reachable state no two assignment rows have the same user_id
\* and the same role_id and are both active.
C1_NoTwoActiveAssignments ==
    \A a \in user_roles : \A b \in user_roles :
        (a.user_id = b.user_id /\ a.role_id = b.role_id /\ a.is_active /\ b.is_active)
            => a.id = b.id

\* Two rows of one (user, role) pair coexist, one active and one inactive.
C1_Witness ==
    \E a \in user_roles : \E b \in user_roles :
        /\ a.id # b.id
        /\ a.user_id = b.user_id /\ a.role_id = b.role_id
        /\ a.is_active /\ ~b.is_active

\* C2: an assign call made while an active assignment for its (user, role)
\* exists is answered Conflict and leaves the assignment rows as they were.
C2_ConflictOnActiveDuplicate ==
    [][\A uid \in Users : \A rid \in RoleIds :
          (ActiveAssignmentsOf(user_roles, uid, rid) # {} /\ IsAssignCheck(uid, rid))
              => (last'.result = "Conflict" /\ user_roles' = user_roles)]_vars

\* C3: once an assignment of (user, role) has been revoked, a new assign call
\* for the pair passes the existing-assignment check (and goes on to insert a
\* second row), the revoked row staying in place.
C3_ReassignAfterRevoke ==
    [][\A uid \in Users : \A rid \in RoleIds :
          (/\ last.op = "revoke" /\ last.result = "ok"
           /\ last.user_id = uid /\ last.role_id = rid
           /\ ActiveAssignmentsOf(user_roles, uid, rid) = {}
           /\ Cardinality(AssignmentsOf(user_roles, uid, rid)) = 1
           /\ IsAssignCheck(uid, rid))
              => (last'.result = "checked" /\ user_roles' = user_roles)]_vars

\* C4: when a request that passed its existence check commits while an active
\* row for its pair is already stored, its commit adds no active row -- the
\* store rejects it -- and the pair never has two active rows.
C4_ConcurrentAssignAtMostOneActive ==
    [][\A p \in Procs :
          (IsAssignCommit(p)
             /\ ActiveAssignmentsOf(user_roles, req[p].user_id, req[p].role_id) # {})
              => /\ \A a \in user_roles' \ user_roles : ~a.is_active
                 /\ user_roles' = user_roles => last'.result = "IntegrityError"
                 /\ Cardinality(ActiveAssignmentsOf(user_roles', req[p].user_id,
                                                    req[p].role_id)) = 1]_vars

\* A commit was rejected although its user, role and actor exist: the pair's
\* only stored row is active, so the rejected row was a second active one.
C4_Witness ==
    /\ last.op = "assign" /\ last.result = "IntegrityError"
    /\ users = Users
    /\ RolesWithId(roles, last.role_id) # {}
    /\ Cardinality(AssignmentsOf(user_roles, last.user_id, last.role_id)) = 1
    /\ ActiveAssignmentsOf(user_roles, last.user_id, last.role_id) # {}

\* C5: has_role(user, name) holds exactly when some active assignment of the
\* user points to an active role of that name; it is false for an active
\* assignment to a disabled role, and false once the only assignment of the
\* role has been revoked.
C5_HasRoleState ==
    /\ \A u \in Users : \A name \in RoleNames :
          has_role(u, name) <=>
              (\E r \in roles : /\ r.name = name /\ r.is_active
                                /\ ActiveAssignmentsOf(user_roles, u, r.id) # {})
    /\ \A a \in user_roles : \A r \in roles :
          (a.role_id = r.id /\ a.is_active /\ ~r.is_active)
              => ~has_role(a.user_id, r.name)

C5_HasRoleAfterRevoke ==
    \A uid \in Users : \A r \in roles :
        (/\ last'.op = "revoke" /\ last'.result = "ok"
         /\ last'.user_id = uid /\ last'.role_id = r.id
         /\ roles' = roles
         /\ Cardinality(AssignmentsOf(user_roles, uid, r.id)) = 1)
            => ~has_role(uid, r.name)'

C6_EffectivePermissions ==
    \A u \in Users : \A perm \in {DocRead, DocWrite} :
        perm \in all_permissions(u) <=>
            (\E r \in roles :
                /\ r.is_active
                /\ \E a \in user_roles : a.user_id = u /\ a.role_id = r.id /\ a.is_active
                /\ perm \in Range(get_permissions_list(r)))

\* A user holds an active role and has an active assignment to a disabled
\* role whose permission DocWrite is not among the effective permissions.
C6_Witness ==
    \E u \in Users : \E a \in user_roles : \E b \in user_roles :
        /\ a.user_id = u /\ b.user_id = u
        /\ a.is_active /\ b.is_active
        /\ RoleOf(roles, a).is_active
        /\ ~RoleOf(roles, b).is_active
        /\ DocWrite \in Range(get_permissions_list(RoleOf(roles, b)))
        /\ all_permissions(u) = {DocRead}

\* C7: no two roles ever have the same name, whatever their is_active flags;
\* create_role with the name of an existing role answers Conflict and adds
\* no role.
C7_RoleNameUnique ==
    /\ [](\A a \in roles : \A b \in roles : a.name = b.name => a.id = b.id)
    /\ [][(last'.op = "create_role" /\ \E r \in roles : r.name = last'.name)
             => (last'.result = "Conflict" /\ roles' = roles)]_vars

\* create_role was refused for the name of a disabled role.
C7_Witness ==
    /\ last.op = "create_role" /\ last.result = "Conflict"
    /\ \E r \in roles : r.name = last.name /\ ~r.is_active

\* C8: update_role to the name of a different role answers Conflict and
\* leaves the roles unchanged; update_role to the role's own name is applied.
C8_UpdateRoleName ==
    [][\A rid \in RoleIds :
          (last'.op = "update_role" /\ last'.role_id = rid /\ last'.name # NoName)
              => /\ (\E r \in roles : r.id # rid /\ r.name = last'.name)
                        => (RolesWithId(roles, rid) # {}
                               => last'.result = "Conflict" /\ roles' = roles)
                 /\ (\E r \in roles : r.id = rid /\ r.name = last'.name)
                        => last'.result = "ok"]_vars

\* update_role was refused for the name of another role.
C8_Witness ==
    /\ last.op = "update_role" /\ last.result = "Conflict"
    /\ \E r \in roles : r.id # last.role_id /\ r.name = last.name
    /\ \E r \in roles : r.id = last.role_id

\* C9: every assignment row refers to an existing user and an existing role.
C9_NoDanglingAssignment ==
    \A a \in user_roles :
        a.user_id \in users /\ RolesWithId(roles, a.role_id) # {}

\* A user and a role have been deleted after two rows had been inserted, and
\* a row of a surviving user and role remains.
C9_Witness ==
    /\ last.op \in {"delete_user", "delete_role"} /\ last.result = "ok"
    /\ users # Users
    /\ Cardinality(roles) < 2
    /\ next_user_role_id > 2
    /\ user_roles # {}

\* C10: delete_role of a role with an active assignment is refused and
\* changes nothing; delete_role of a role without one goes through and the
\* role is gone once it commits.
C10_DeleteRoleBlocked ==
    [][/\ \A rid \in RoleIds :
             (IsDeleteRoleCheck(rid) /\ RolesWithId(roles, rid) # {})
                 => /\ roles' = roles /\ user_roles' = user_roles /\ users' = users
                    /\ IF \E a \in user_roles : a.role_id = rid /\ a.is_active
                       THEN last'.result = "Blocked" /\ pc' = pc
                       ELSE last'.result = "checked"
       /\ \A p \in Procs :
             IsDeleteRoleCommit(p)
                 => (last'.result = "ok" /\ RolesWithId(roles', req[p].role_id) = {})]_vars

\* delete_role was refused for a role that is still stored with an active
\* assignment.
C10_Witness ==
    /\ last.op = "delete_role" /\ last.result = "Blocked"
    /\ RolesWithId(roles, last.role_id) # {}
    /\ \E a \in user_roles : a.role_id = last.role_id /\ a.is_active

\* C11: revoke of a stored, active assignment succeeds whatever rows the pair
\* already has: the row stays, with is_active false, and every other row is
\* left as it was.
C11_RevokeSucceeds ==
    [][\A a \in user_roles :
          (last'.op = "revoke" /\ last'.id = a.id /\ a.is_active)
              => /\ last'.result = "ok"
                 /\ [a EXCEPT !.is_active = FALSE] \in user_roles'
                 /\ user_roles \ {a} \subseteq user_roles'
                 /\ Cardinality(user_roles') = Cardinality(user_roles)]_vars

\* C12: remove(id) deletes the assignment row with that id and no other, and
\* changes no user and no role; for an id no row has it answers NotFound and
\* changes nothing.
C12_RemoveExactlyOne ==
    [][\A id \in AssignIds :
          (last'.op = "remove" /\ last'.id = id)
              => /\ users' = users
                 /\ roles' = roles
                 /\ IF \E a \in user_roles : a.id = id
                    THEN /\ last'.result = "ok"
                         /\ user_roles' = {a \in user_roles : a.id # id}
                         /\ Cardinality(user_roles') = Cardinality(user_roles) - 1
                    ELSE /\ last'.result = "NotFound"
                         /\ user_roles' = user_roles]_vars

\* A row was removed while another row of the same user and role is stored.
C12_Witness ==
    /\ last.op = "remove" /\ last.result = "ok"
    /\ AssignmentsWithId(user_roles, last.id) = {}
    /\ AssignmentsOf(user_roles, last.user_id, last.role_id) # {}

\* C13: assign for a user id or a role id that no stored row has answers
\* NotFound, goes no further and adds no assignment row; nor does a request
\* whose user or role has gone by the time it writes add a row.
C13_AssignNotFound ==
    [][/\ \A uid \in Users : \A rid \in RoleIds :
             (IsAssignCheck(uid, rid) /\ (uid \notin users \/ RolesWithId(roles, rid) = {}))
                 => /\ last'.result = "NotFound"
                    /\ user_roles' = user_roles
                    /\ pc' = pc
       /\ \A p \in Procs :
             (IsAssignCommit(p)
                 /\ (req[p].user_id \notin users \/ RolesWithId(roles, req[p].role_id) = {}))
                 => user_roles' = user_roles]_vars

\* assign was answered NotFound for a deleted user and a stored role.
C13_Witness ==
    /\ last.op = "assign" /\ last.result = "NotFound"
    /\ last.user_id \notin users
    /\ RolesWithId(roles, last.role_id) # {}

\* The role the permission methods are called on.
CodecRole == CHOOSE r \in roles : r.id = 1

\* The position of the first entry of values that trims to permission perm.
FirstIndex(values, perm) ==
    CHOOSE i \in 1..Len(values) :
        /\ values[i] # None /\ strip(values[i]) = perm
        /\ \A j \in 1..(i - 1) : values[j] = None \/ strip(values[j]) # perm

\* C14: once set_permissions_list(role, L) has returned, get_permissions_list(role) is L
\* with each entry trimmed, empty, whitespace-only and null entries left out
\* and each value kept once, at the place of its first occurrence.
C14_SetGetRoundTrip ==
    last.op = "set_permissions_list"
        => LET L == last.arg
               got == get_permissions_list(CodecRole)
           IN  /\ Range(got) = {strip(L[i]) : i \in {j \in 1..Len(L) :
                                       L[j] # None /\ strip(L[j]) # <<>>}}
               /\ \A a \in 1..Len(got) : \A b \in 1..Len(got) :
                     /\ a # b => got[a] # got[b]
                     /\ a < b => FirstIndex(L, got[a]) < FirstIndex(L, got[b])

\* The list passed held a permission with surrounding whitespace, then the
\* permission made of backslash, quote and comma, then the first permission
\* again: two permissions are read back, in that order.
C14_Witness ==
    /\ last.op = "set_permissions_list"
    /\ last.arg = <<PaddedDocRead, Punctuation, DocRead>>
    /\ get_permissions_list(CodecRole) = <<DocRead, Punctuation>>

\* C15: a set_permissions_list call that follows one, made with the same
\* list or with the list get_permissions_list returned, leaves the persisted
\* permissions text as the first call left it.
C15_SetIdempotent ==
    [][(/\ last.op = "set_permissions_list"
        /\ last'.op = "set_permissions_list"
        /\ (last'.arg = last.arg \/ last'.arg = get_permissions_list(CodecRole)))
          => /\ CodecRole'.permissions = CodecRole.permissions
             /\ last'.before = CodecRole'.permissions]_vars

\* A call with a list that is not in normal form (whitespace around an
\* entry, a repeated value) found the persisted text already equal to its
\* result.
C15_Witness ==
    /\ last.op = "set_permissions_list"
    /\ last.before = CodecRole.permissions
    /\ last.arg = <<PaddedDocRead, Punctuation, DocRead>>

\* The list get_permissions_list returns for a permissions field.
ListOf(permissions) == get_permissions_list([NewRole EXCEPT !.permissions = permissions])

\* The permissions field as it was before the last call, read as a list.
ListBefore == ListOf(last.before)

\* C16: add_permission with an empty or whitespace-only value returns false
\* and leaves the permissions field, and so the list, as it was.
C16_AddBlankRejected ==
    (last.op = "add_permission" /\ \A i \in 1..Len(last.arg) : last.arg[i] = " ")
        => /\ last.result = FALSE
           /\ CodecRole.permissions = last.before
           /\ get_permissions_list(CodecRole) = ListBefore

\* add_permission was called with a whitespace-only value on a role that
\* has permissions.
C16_Witness ==
    /\ last.op = "add_permission"
    /\ last.arg = <<" ", " ">>
    /\ Len(get_permissions_list(CodecRole)) >= 2

\* C17: add_permission(p), for a non-empty p that is not in the list, returns
\* true and the list is the list before with p appended -- p once, the
\* length one more; add_permission(p) called again right after returns false
\* and changes nothing.
C17_AddState ==
    (/\ last.op = "add_permission"
     /\ strip(last.arg) # <<>>
     /\ strip(last.arg) \notin Range(ListBefore))
        => /\ last.result = TRUE
           /\ get_permissions_list(CodecRole) = Append(ListBefore, strip(last.arg))
           /\ Len(get_permissions_list(CodecRole)) = Len(ListBefore) + 1
           /\ Cardinality({i \in 1..Len(get_permissions_list(CodecRole)) :
                  get_permissions_list(CodecRole)[i] = strip(last.arg)}) = 1

C17_AddAgain ==
    (/\ last.op = "add_permission" /\ last.result = TRUE
     /\ last'.op = "add_permission" /\ last'.arg = last.arg)
        => (last'.result = FALSE /\ roles' = roles)

C18_RemoveState ==
    last.op = "remove_permission"
        => IF last.arg = <<>> \/ last.arg \notin Range(ListBefore)
           THEN /\ last.result = FALSE
                /\ CodecRole.permissions = last.before
           ELSE /\ last.result = TRUE
                /\ last.arg \notin Range(get_permissions_list(CodecRole))
                /\ \E i \in 1..Len(ListBefore) :
                      /\ ListBefore[i] = last.arg
                      /\ get_permissions_list(CodecRole) =
                             SubSeq(ListBefore, 1, i - 1)
                                 \o SubSeq(ListBefore, i + 1, Len(ListBefore))

C18_RemoveAfterAdd ==
    (/\ last.op = "add_permission" /\ last.result = TRUE
     /\ last'.op = "remove_permission" /\ last'.arg = strip(last.arg))
        => /\ last'.result = TRUE
           /\ \A before \in {last.before} : \A after \in {CodecRole'.permissions} :
                 ListOf(after) = ListOf(before)

QueryLists == ListsOver(QueryArgs, 2)

\* C19: with "*" in the role's list has_permission is true of every
\* permission, has_any_permission of every non-empty list and
\* has_all_permissions of every list; without "*" has_any_permission is true
\* exactly of the lists with an element in the role's list and
\* has_all_permissions exactly of the lists with every element in it.
C19_WildcardAndQueries ==
    \A role \in {CodecRole} : \A current \in {Range(get_permissions_list(CodecRole))} :
        IF <<"*">> \in current
        THEN /\ \A q \in QueryArgs : has_permission(role, q)
             /\ \A Q \in QueryLists :
                   /\ Q # <<>> => has_any_permission(role, Q)
                   /\ has_all_permissions(role, Q)
        ELSE \A Q \in QueryLists :
                /\ has_any_permission(role, Q) <=> (\E i \in 1..Len(Q) : Q[i] \in current)
                /\ has_all_permissions(role, Q) <=> (\A i \in 1..Len(Q) : Q[i] \in current)

\* "*" was added to a list that has neither of two permissions, and both
\* are granted.
C19_Witness ==
    /\ last.op = "add_permission" /\ last.result = TRUE /\ last.arg = <<"*">>
    /\ DocReadWrite \notin Range(get_permissions_list(CodecRole))
    /\ Plain \notin Range(get_permissions_list(CodecRole))
    /\ Len(get_permissions_list(CodecRole)) >= 2
    /\ has_all_permissions(CodecRole, <<DocReadWrite, Plain>>)

\* The text before the first ":" of the permission is key.
IsLevelOf(key, permission) ==
    \E n \in 1..Len(permission) :
        /\ permission[n] = ":"
        /\ \A m \in 1..(n - 1) : permission[m] # ":"
        /\ key = SubSeq(permission, 1, n - 1)

\* C20: the groups of get_permissions_by_level partition the role's list:
\* each permission is in exactly one group, one with ":" in the group whose
\* key is its text before the first ":", one without in the fallback group,
\* and the groups hold nothing else.
C20_LevelsPartition ==
    \A current \in {get_permissions_list(CodecRole)} :
    \A groups \in {get_permissions_by_level(CodecRole)} :
        /\ \A i \in 1..Len(current) :
              /\ Cardinality({key \in DOMAIN groups : current[i] \in Range(groups[key])}) = 1
              /\ \A key \in DOMAIN groups :
                    current[i] \in Range(groups[key])
                        <=> IF ":" \in Range(current[i])
                            THEN IsLevelOf(key, current[i])
                            ELSE key = FallbackLevel
        /\ \A key \in DOMAIN groups :
              /\ groups[key] # <<>>
              /\ Range(groups[key]) \subseteq Range(current)

\* A permission with two ":" shares the group of its first word with another
\* permission, and a permission without ":" is in the fallback group.
C20_Witness ==
    /\ last.op = "add_permission" /\ last.result = TRUE
    /\ DOMAIN get_permissions_by_level(CodecRole) = {<<"d">>, FallbackLevel}
    /\ DocReadWrite \in Range(get_permissions_by_level(CodecRole)[<<"d">>])
    /\ Len(get_permissions_by_level(CodecRole)[<<"d">>]) = 2
    /\ get_permissions_by_level(CodecRole)[FallbackLevel] = <<Plain>>

\* text contains part as a contiguous run of characters.
Contains(text, part) ==
    \E i \in 0..(Len(text) - Len(part)) : SubSeq(text, i + 1, i + Len(part)) = part

\* C21: get_roles returns the roles that satisfy the filters (is_active when
\* active_only; name or description containing search, case-insensitively,
\* when search is given), sorted by created_at descending, with the first
\* skip dropped and at most limit returned; never an error.
C21_ListRoles ==
    last.op = "get_roles" =>
        LET q == last.arg
            matching ==
                {r \in roles :
                    /\ q.active_only => r.is_active
                    /\ q.search # None =>
                          \/ Contains(lower(r.name), lower(q.search))
                          \/ /\ r.description # None
                             /\ Contains(lower(r.description), lower(q.search))}
        IN  \E s \in OrderedByCreatedAtDesc(matching) :
                last.result = [i \in 1..Len(Page(s, q.skip, q.limit)) |->
                                   Page(s, q.skip, q.limit)[i].id]


\* The number of active assignments of the role named name.
ActiveAssignmentCount(name) ==
    Cardinality({a \in user_roles :
                    a.is_active /\ \E r \in roles : r.id = a.role_id /\ r.name = name})

\* The store holds exactly three roles, all active, with 2, 1 and 0 users.
IsThreeRoleStore ==
    /\ Cardinality(roles) = 3
    /\ \A r \in roles : r.is_active
    /\ {ActiveAssignmentCount(r.name) : r \in roles} = {0, 1, 2}

\* C22: the statistics report total_roles = number of roles, active_roles =
\* number of active roles, inactive_roles = total - active, and popular_roles
\* as at most 5 roles in non-increasing order of their number of active
\* assignments, each with user_count equal to that number; over three active
\* roles with 2, 1 and 0 users popular_roles begins with the role of 2 users,
\* then the role of 1 user.
C22_Statistics ==
    last.op = "get_role_statistics" =>
        LET s == last.result
            popular == s.popular_roles
        IN  /\ s.total_roles = Cardinality(roles)
            /\ s.active_roles = Cardinality({r \in roles : r.is_active})
            /\ s.inactive_roles = s.total_roles - s.active_roles
            /\ Len(popular) <= 5
            /\ \A i \in 1..Len(popular) :
                  /\ \E r \in roles : r.name = popular[i].name
                  /\ popular[i].user_count = ActiveAssignmentCount(popular[i].name)
                  /\ \A j \in 1..Len(popular) :
                        /\ i < j => popular[i].user_count >= popular[j].user_count
                        /\ i # j => popular[i].name # popular[j].name
            /\ IsThreeRoleStore =>
                  /\ Len(popular) >= 2
                  /\ popular[1].user_count = 2
                  /\ popular[2].user_count = 1

\* Statistics were taken over the three-role store.
C22_Witness ==
    /\ last.op = "get_role_statistics"
    /\ IsThreeRoleStore
    /\ Len(last.result.popular_roles) = 2


\* The persisted rows.
Persisted == <<users, roles, user_roles>>

\* C23: every mutating operation is all-or-nothing.  A step of create_role,
\* update_role, delete_role, assign or remove that answers an error leaves the
\* persisted roles, users and assignments as they were, and so does the check
\* phase of a request still to commit: the store changes only in the one step
\* in which an operation succeeds, so no request sees part of a change.
C23_AllOrNothing ==
    [][last'.result # "ok" => Persisted' = Persisted]_vars

\* An assign request was rolled back by the store (its row rejected at commit)
\* after another request had committed.
C23_Witness ==
    /\ last.op = "assign"
    /\ last.result = "IntegrityError"
    /\ user_roles # {}


\* C24: no two users have the same email compared case-insensitively (a
\* creation whose email equals an existing one up to letter case adds no
\* user).
C24_EmailUniqueIgnoringCase ==
    \A a, b \in users : lower(a.email) = lower(b.email) => a = b


\* C25: every assignment row created by a successful assign has
\* is_active = true at the moment it is created, whatever the request
\* carries.
C25_CreatedActive ==
    [][(last'.op = "assign" /\ last'.result = "ok") =>
          \A a \in user_roles' \ user_roles : a.is_active]_vars


\* C26: however the permissions field was written, get_permissions_list
\* returns a list with no empty or whitespace-only string and no duplicate,
\* and the empty list when the field is unset or malformed.
C26_ReadIsNormalized ==
    \A r \in roles :
        \A text \in {r.permissions} :
            LET permissions == get_permissions_list(r)
            IN  /\ \A i \in 1..Len(permissions) :
                      /\ permissions[i] # None
                      /\ strip(permissions[i]) # <<>>
                      /\ \A j \in 1..Len(permissions) :
                            permissions[i] = permissions[j] => i = j
                /\ (text = None \/ ~loads(text).ok) => permissions = <<>>


\* C27: delete_role never commits the deletion of a role that has an active
\* assignment at the moment of the commit (an assignment committed between
\* delete_role's count and its delete is not removed by the cascade).
C27_NoActiveAssignmentDeleted ==
    [][\A p \in Procs :
          IsDeleteRoleCommit(p) => ActiveUsersOfRole(user_roles, req[p].role_id) = 0]_vars


\* C28: in every reachable state each assignment's assigned_by is null or
\* the id of an existing user.
C28_AssignedByExists ==
    \A a \in user_roles : a.assigned_by = NoUser \/ a.assigned_by \in users

\* A user deletion was rejected by the store while an assignment made by
\* that user remains.
C28_Witness ==
    /\ last.op = "delete_user"
    /\ last.result = "IntegrityError"
    /\ \E a \in user_roles : a.assigned_by = last.user_id /\ a.user_id # last.user_id


\* C29: the popular-roles query with an inner join and the one with an outer
\* join followed by the filter UserRole.is_active == True return the same
\* rows on every store: one row for each role that has an active assignment,
\* whatever the role's own is_active flag, with its number of active
\* assignments.
C29_JoinsAgree ==
    last.op \in {"get_role_statistics", "test_query_functions"} =>
        LET inner == GroupedCounts(InnerJoin(roles, user_roles))
            outer == GroupedCounts(OuterJoin(roles, user_roles))
            active == {a \in user_roles : a.is_active}
            expected == {[name |-> r.name,
                          user_count |-> Cardinality({a \in active : a.role_id = r.id})] :
                            r \in {x \in roles : \E a \in active : a.role_id = x.id}}
            returned == IF last.op = "get_role_statistics"
                        THEN last.result.popular_roles ELSE last.result
        IN  /\ inner = outer
            /\ inner = expected
            /\ Range(returned) \subseteq expected
            /\ Len(returned) = IF Cardinality(expected) < 5 THEN Cardinality(expected) ELSE 5

\* The outer-join query ran over a store holding a role without any
\* assignment, an active role whose assignments are all revoked, and a
\* disabled role with an active assignment.
C29_Witness ==
    /\ last.op = "test_query_functions"
    /\ \E r \in roles : \A a \in user_roles : a.role_id # r.id
    /\ \E r \in roles :
          /\ \E a \in user_roles : a.role_id = r.id
          /\ ActiveAssignmentCount(r.name) = 0
    /\ \E r \in roles : ~r.is_active /\ ActiveAssignmentCount(r.name) > 0


\* C30: applying the migrations' upgrade steps in revision order, every step
\* succeeds: no operation fails, on a name that already exists or otherwise.
C30_EveryStepSucceeds ==
    schema.status # "failed"

====
